---------------------------- MODULE Spec2Model ----------------------------
(***************************************************************************)
(* A model of the SDL work queue of src/src/osd/sdl/sdlwork.c: the         *)
(* scalable (rotating baton) lock, the pending list and the lock-free free *)
(* list of work items, the worker threads and the client operations        *)
(* osd_work_queue_alloc, osd_work_item_queue_multiple, osd_work_queue_wait,*)
(* osd_work_item_wait, osd_work_item_release and osd_work_queue_free.      *)
(*                                                                         *)
(* Every step of a thread is one access to shared memory (a read, a write, *)
(* an interlocked operation, an event operation); memory is sequentially   *)
(* consistent.  The scalable lock is modelled slot by slot and run by the  *)
(* threads of a harness (SpecLock).  In the queue a critical section, from *)
(* scalable_lock_acquire to scalable_lock_release, is one step: the lock   *)
(* serialises the sections, and nothing outside a section reads or writes  *)
(* queue->list or queue->tailptr.                                          *)
(***************************************************************************)
EXTENDS Integers, Sequences, FiniteSets, Bags, TLC

\* ------------------------------------------------------------ constants

\* #define MAX_THREADS (16)
MAX_THREADS == 16

\* ---------------------------------------------------------------- bounds

\* threads of the lock harness (more than MAX_THREADS: two waiters share a slot)
LockThreads == 17
\* acquisitions the lock harness starts in one run
MaxAcquires == 19

\* work items one run submits in all (each may need a freshly allocated item)
MaxSubmitted == 2
\* numitems of one osd_work_item_queue_multiple call
MaxCount == 2
\* work items malloc hands out in one run
MaxItems == 2
\* times the callback of one submitted item is entered in one run
MaxRuns == 2

\* characters of the OSDPROCESSORS environment variable in one run
MaxEnvLen == 3

VARIABLES
    lock,        \* scalable_lock: [haslock : slot -> BOOLEAN, nextindex : INT32]
    lk_spin,     \* lock harness: slot -> number of threads spinning on it
    lk_cs,       \* lock harness: bag of threads between acquire and release
    counter,     \* lock harness: the counter the critical section increments
    lk_acq,      \* lock harness: acquisitions that have returned
    lk_tickets,  \* lock harness: acquisitions that have started
    lk_first,    \* lock harness: the one thread that is followed by name
    \* struct _osd_work_queue
    list,        \* head of the pending list (an item, or NULL)
    tailptr,     \* the place the next enqueue writes: see TailList, TailNext
    free,        \* head of the free list (an item, or NULL)
    items,       \* INT32 items in the queue
    livethreads, \* INT32 number of live threads
    waiting,     \* is someone waiting on the queue to complete?
    exiting,     \* should the threads exit on their next opportunity?
    threads,     \* number of worker threads of this queue
    flags,       \* creation flags, a subset of {"MULTI", "IO"}
    doneevent,   \* manual-reset event: TRUE when signalled
    wakeevent,   \* worker -> its auto-reset wake event: TRUE when signalled
    active,      \* worker -> its active flag
    item,        \* item -> struct _osd_work_item
    nalloc,      \* items malloc has returned so far: items 1 .. nalloc
    \* threads
    clients,     \* the client threads of this run
    inputs,      \* the arguments the clients of this run pass to submit
    budget,      \* items each client may still submit in this run
    pc,          \* thread -> the place it is at
    loc,         \* thread -> its local variables
    \* history
    ginc,        \* every item submitted so far, in the order submit filled them
    genq,        \* the submitted items in the order they entered the pending list
    gdeq,        \* the submitted items in the order they left the pending list
    gdec         \* how many times items has been decremented

harnessVars == <<lock, lk_spin, lk_cs, counter, lk_acq, lk_tickets, lk_first>>
queueVars == <<list, tailptr, free, items, livethreads, waiting, exiting,
               threads, flags, doneevent, wakeevent, active, item, nalloc>>
threadVars == <<clients, inputs, budget, pc, loc>>
histVars == <<ginc, genq, gdeq, gdec>>
vars == <<harnessVars, queueVars, threadVars, histVars>>

Slots == 0 .. (MAX_THREADS - 1)

\* INT32 arithmetic of the interlocked operations: v + add, wrapped
INT32_MAX == 2147483647
INT32_MIN == -2147483647 - 1

Wrap32Add(v, add) ==
    IF add >= 0 /\ v > INT32_MAX - add
        THEN INT32_MIN + ((v - INT32_MAX) + (add - 1))
        ELSE IF add < 0 /\ v < INT32_MIN - add
                 THEN INT32_MAX + ((v - INT32_MIN) + (add + 1))
                 ELSE v + add

\* ---------------------------------------------------------- scalable lock

\* osd_interlocked_increment: osd_sync_add(ptr, 1), the new value
osd_interlocked_increment(v) == Wrap32Add(v, 1)

\* osd_interlocked_decrement: osd_sync_add(ptr, -1), the new value
osd_interlocked_decrement(v) == Wrap32Add(v, -1)

\* osd_interlocked_add: osd_sync_add(ptr, add), the new value
osd_interlocked_add(v, add) == Wrap32Add(v, add)

\* x & (MAX_THREADS - 1) on a two's complement INT32
SlotMask(x) == x % MAX_THREADS

\* scalable_lock_init: memset 0, slot[0].haslock = TRUE
scalable_lock_init ==
    [haslock |-> [s \in Slots |-> s = 0], nextindex |-> 0]

\* an acquire that spins on slot 0 whatever its ticket
scalable_lock_myslot_zero(l) == 0

\* scalable_lock_acquire, first line: the slot this acquirer spins on;
\* the low four bits of (new value - 1) are those of the old value
scalable_lock_myslot(l) ==
    LET new == osd_interlocked_increment(l.nextindex)
    IN  SlotMask(Wrap32Add(new, -1))

\* scalable_lock_acquire, first line: the lock after the interlocked increment
scalable_lock_ticket(l) ==
    [l EXCEPT !.nextindex = osd_interlocked_increment(@)]

\* osd_compare_exchange32(&slot[myslot].haslock, TRUE, FALSE) returned TRUE
scalable_lock_cas_ok(l, myslot) == l.haslock[myslot]

\* a compare-exchange that tests the slot without clearing it
scalable_lock_cas_noclear(l, myslot) == l

\* the lock after a successful osd_compare_exchange32(.., TRUE, FALSE)
scalable_lock_cas(l, myslot) == [l EXCEPT !.haslock[myslot] = FALSE]

\* a release that hands the lock back to the slot it came in by
scalable_lock_release_self(l, myslot) ==
    [l EXCEPT !.haslock[myslot] = TRUE]

\* scalable_lock_release: osd_exchange32(&slot[(myslot + 1) & 15].haslock, TRUE)
scalable_lock_release(l, myslot) ==
    [l EXCEPT !.haslock[SlotMask(myslot + 1)] = TRUE]

\* ----------------------------------------------------------- lock harness
\* K threads that repeat: ticket = acquire; counter = counter + 1 (a read,
\* then a write); release(ticket).  The threads run the same code, so the
\* harness keeps how many threads are at each place, not which.

LkSpinning == LET Sum[s \in -1 .. (MAX_THREADS - 1)] ==
                      IF s < 0 THEN 0 ELSE lk_spin[s] + Sum[s - 1]
              IN  Sum[MAX_THREADS - 1]

LkInside == BagCardinality(lk_cs)

LkIdle == LockThreads - LkSpinning - LkInside

InitLockHarness ==
    /\ lock = scalable_lock_init
    /\ lk_tickets = 0
    /\ lk_spin = [s \in Slots |-> 0]
    /\ lk_cs = EmptyBag
    /\ counter = 0
    /\ lk_acq = 0
    /\ lk_first = [at |-> "out", slot |-> 0]

\* a harness thread enters scalable_lock_acquire and takes its slot
lt_acquire_ticket ==
    /\ LkIdle > 0
    /\ lk_tickets < MaxAcquires
    /\ lk_spin' = [lk_spin EXCEPT ![scalable_lock_myslot(lock)] = @ + 1]
    /\ lock' = scalable_lock_ticket(lock)
    /\ lk_tickets' = lk_tickets + 1
    /\ UNCHANGED <<lk_cs, counter, lk_acq, lk_first,
                     queueVars, threadVars, histVars>>

\* its compare-exchange succeeds and scalable_lock_acquire returns
lt_acquire_cas ==
    \E s \in Slots :
        /\ lk_spin[s] > 0
        /\ scalable_lock_cas_ok(lock, s)
        /\ lock' = scalable_lock_cas(lock, s)
        /\ lk_spin' = [lk_spin EXCEPT ![s] = @ - 1]
        /\ lk_cs' = lk_cs (+) SetToBag({[slot |-> s, at |-> "read", tmp |-> 0]})
        /\ lk_acq' = lk_acq + 1
        /\ UNCHANGED <<counter, lk_tickets, lk_first,
                     queueVars, threadVars, histVars>>

\* inside the critical section: read the counter
lt_read ==
    \E r \in BagToSet(lk_cs) :
        /\ r.at = "read"
        /\ lk_cs' = (lk_cs (-) SetToBag({r}))
                      (+) SetToBag({[r EXCEPT !.at = "write", !.tmp = counter]})
        /\ UNCHANGED <<lock, lk_spin, counter, lk_acq, lk_tickets, lk_first,
                     queueVars, threadVars, histVars>>

\* inside the critical section: write the counter back, incremented
lt_write ==
    \E r \in BagToSet(lk_cs) :
        /\ r.at = "write"
        /\ counter' = r.tmp + 1
        /\ lk_cs' = (lk_cs (-) SetToBag({r}))
                      (+) SetToBag({[r EXCEPT !.at = "release", !.tmp = 0]})
        /\ UNCHANGED <<lock, lk_spin, lk_acq, lk_tickets, lk_first,
                     queueVars, threadVars, histVars>>

\* scalable_lock_release with the ticket acquire returned
lt_release ==
    \E r \in BagToSet(lk_cs) :
        /\ r.at = "release"
        /\ lock' = scalable_lock_release(lock, r.slot)
        /\ lk_cs' = lk_cs (-) SetToBag({r})
        /\ UNCHANGED <<lk_spin, counter, lk_acq, lk_tickets, lk_first,
                     queueVars, threadVars, histVars>>

\* ------------------------------------------------- lock harness, unbounded
\* The same threads acquiring and releasing for ever, one of them (lk_first)
\* followed by name.  nextindex is used by scalable_lock_acquire through
\* "& (MAX_THREADS - 1)" only, and 2^32 is a multiple of MAX_THREADS, so
\* these steps keep the low bits of nextindex and nothing else of it: the
\* slots handed out are those of the full counter, wrap-around included.

\* the bits of nextindex that scalable_lock_acquire reads
scalable_lock_lowbits(l) == [l EXCEPT !.nextindex = SlotMask(@)]

\* the harness threads other than lk_first that are outside the lock
LfIdle == (LockThreads - 1) - LkSpinning - LkInside

\* somebody is between the return of acquire and release
LfHeld == LkInside > 0 \/ lk_first.at = "in"

\* somebody is inside scalable_lock_acquire
LfWaiting == LkSpinning > 0 \/ lk_first.at = "spin"

\* a thread other than lk_first enters scalable_lock_acquire
lf_acquire_ticket ==
    /\ LfIdle > 0
    /\ lk_spin' = [lk_spin EXCEPT ![scalable_lock_myslot(lock)] = @ + 1]
    /\ lock' = scalable_lock_lowbits(scalable_lock_ticket(lock))
    /\ UNCHANGED <<lk_cs, counter, lk_acq, lk_tickets, lk_first,
                     queueVars, threadVars, histVars>>

\* its compare-exchange succeeds and scalable_lock_acquire returns
lf_acquire_cas ==
    \E s \in Slots :
        /\ lk_spin[s] > 0
        /\ scalable_lock_cas_ok(lock, s)
        /\ lock' = scalable_lock_cas(lock, s)
        /\ lk_spin' = [lk_spin EXCEPT ![s] = @ - 1]
        /\ lk_cs' = lk_cs (+) SetToBag({[slot |-> s, at |-> "release", tmp |-> 0]})
        /\ UNCHANGED <<counter, lk_acq, lk_tickets, lk_first,
                     queueVars, threadVars, histVars>>

\* lk_first enters scalable_lock_acquire and takes its slot
lf_first_ticket ==
    /\ lk_first.at = "out"
    /\ lk_first' = [at |-> "spin", slot |-> scalable_lock_myslot(lock)]
    /\ lock' = scalable_lock_lowbits(scalable_lock_ticket(lock))
    /\ UNCHANGED <<lk_spin, lk_cs, counter, lk_acq, lk_tickets,
                     queueVars, threadVars, histVars>>

\* the compare-exchange of lk_first succeeds and its acquire returns
lf_first_cas ==
    /\ lk_first.at = "spin"
    /\ scalable_lock_cas_ok(lock, lk_first.slot)
    /\ lock' = scalable_lock_cas(lock, lk_first.slot)
    /\ lk_first' = [lk_first EXCEPT !.at = "in"]
    /\ UNCHANGED <<lk_spin, lk_cs, counter, lk_acq, lk_tickets,
                     queueVars, threadVars, histVars>>

\* lk_first calls scalable_lock_release with its ticket
lf_first_release ==
    /\ lk_first.at = "in"
    /\ lock' = scalable_lock_release(lock, lk_first.slot)
    /\ lk_first' = [at |-> "out", slot |-> 0]
    /\ UNCHANGED <<lk_spin, lk_cs, counter, lk_acq, lk_tickets,
                     queueVars, threadVars, histVars>>

\* ------------------------------------------------------------ work queue

NULL == 0
Items == 1 .. MaxItems
WorkerIds == {1, 2}
ClientIds == {3, 4}
ThreadIds == WorkerIds \cup ClientIds

\* the inputs of the runs
Callbacks == {"square"}
ParamBases == {1, 3}
ParamSteps == {1}

\* every argument the runs use: a parameter base, and AUTO_RELEASE or not
AnyInputs == [parambase |-> ParamBases, auto |-> BOOLEAN]
\* submissions of auto-release items only
AutoInputs == [parambase |-> {1}, auto |-> {TRUE}]

\* an osd_work_callback applied to its parameter (never NULL)
CallbackResult(cb, param) == IF cb = "square" THEN param * param ELSE param

\* where an osd_work_item ** points: at queue->list, at the next field of an
\* item, or at the local itemlist of a thread inside queue_multiple
TailList == [k |-> "list", i |-> 0]
TailNext(i) == [k |-> "next", i |-> i]
TailLocal(t) == [k |-> "local", i |-> t]

\* osd_event_set / osd_event_reset on an event kept as "is it signalled"
osd_event_set(e) == TRUE
osd_event_reset(e) == FALSE

\* an item malloc has not returned yet
NoItem == [next |-> NULL, callback |-> "", param |-> 0, result |-> NULL,
           event |-> "none", auto |-> FALSE, done |-> FALSE, inc |-> 0,
           freed |-> FALSE]

\* the locals of a thread outside every call
NoLocals == [item |-> NULL, val |-> 0, ret |-> "",
             numitems |-> 0, parambase |-> 0, paramstep |-> 0,
             callback |-> "", auto |-> FALSE, itemlist |-> NULL,
             item_tailptr |-> TailList, sitem |-> NULL, nxt |-> NULL,
             itemnum |-> 0, threadnum |-> 0, call |-> <<>>, chain |-> <<>>,
             qres |-> FALSE, timedout |-> FALSE,
             witem |-> NULL, rret |-> "", inrel |-> FALSE, ires |-> FALSE,
             held |-> {}]

\* a thread count that is not clamped to MAX_THREADS
queue_threads_noclamp(numprocs, f) ==
    IF numprocs = 1
        THEN (IF "IO" \in f THEN 1 ELSE 0)
        ELSE (IF "MULTI" \in f THEN numprocs - 1 ELSE 1)

\* osd_work_queue_alloc: the number of threads for numprocs processors
queue_threads(numprocs, f) ==
    LET n == IF numprocs = 1
                 THEN (IF "IO" \in f THEN 1 ELSE 0)
                 ELSE (IF "MULTI" \in f THEN numprocs - 1 ELSE 1)
    IN  IF n < MAX_THREADS THEN n ELSE MAX_THREADS

\* the characters an environment string is made of in the runs
EnvChars == {"0", "1", "2", "9", "-", " ", "x"}

\* the strings of at most n characters
EnvStrings(n) == UNION {[1 .. k -> EnvChars] : k \in 0 .. n}

\* getenv("OSDPROCESSORS"): NULL (set = FALSE), or a string
EnvValues ==
    {[set |-> FALSE, text |-> <<>>]}
        \cup {[set |-> TRUE, text |-> e] : e \in EnvStrings(MaxEnvLen)}

\* osd_num_processors(): what the platform reports in the runs
PlatformProcs == {1, 2, 3, 17, 18}

IsDigit(ch) == ch \in {"0", "1", "2", "3", "4", "5", "6", "7", "8", "9"}

DigitValue(ch) ==
    CASE ch = "0" -> 0 [] ch = "1" -> 1 [] ch = "2" -> 2 [] ch = "3" -> 3
      [] ch = "4" -> 4 [] ch = "5" -> 5 [] ch = "6" -> 6 [] ch = "7" -> 7
      [] ch = "8" -> 8 [] ch = "9" -> 9

\* sscanf "%d" skips white space first
RECURSIVE SkipSpace(_)
SkipSpace(str) ==
    IF str # <<>> /\ Head(str) = " " THEN SkipSpace(Tail(str)) ELSE str

\* the digits at the head of str: their value after acc, and how many
RECURSIVE ScanDigits(_, _, _)
ScanDigits(str, acc, n) ==
    IF str # <<>> /\ IsDigit(Head(str))
        THEN ScanDigits(Tail(str), acc * 10 + DigitValue(Head(str)), n + 1)
        ELSE [value |-> acc, count |-> n]

\* sscanf(str, "%d", &numprocs): the number of conversions (1 or 0) and the
\* value stored: white space, an optional sign, then decimal digits
sscanf_d(str) ==
    LET a == SkipSpace(str)
        neg == a # <<>> /\ Head(a) = "-"
        d == ScanDigits(IF neg THEN Tail(a) ELSE a, 0, 0)
    IN  [conversions |-> IF d.count > 0 THEN 1 ELSE 0,
         value |-> IF neg THEN 0 - d.value ELSE d.value]

\* effective_num_processors: the OSDPROCESSORS override if it is set, scans
\* as a number and is positive; otherwise osd_num_processors()
effective_num_processors(env, platform) ==
    LET r == sscanf_d(env.text)
    IN  IF env.set /\ r.conversions = 1 /\ r.value > 0
            THEN r.value ELSE platform

\* the queues a run may start with: effective_num_processors and flags
Configs == { [numprocs |-> 1, flags |-> {}],
             [numprocs |-> 1, flags |-> {"IO"}],
             [numprocs |-> 2, flags |-> {"MULTI"}] }

\* osd_work_queue_alloc, and the worker threads it creates at their entry
InitQueue(cfgs, cls, n, ins) ==
    /\ \E c \in cfgs :
          /\ threads = queue_threads(c.numprocs, c.flags)
          /\ flags = c.flags
    /\ list = NULL
    /\ tailptr = TailList
    /\ free = NULL
    /\ items = 0
    /\ livethreads = 0
    /\ waiting = FALSE
    /\ exiting = FALSE
    /\ doneevent = TRUE
    /\ wakeevent = [w \in WorkerIds |-> FALSE]
    /\ active = [w \in WorkerIds |-> FALSE]
    /\ item = [i \in Items |-> NoItem]
    /\ nalloc = 0
    /\ clients = cls
    /\ inputs = ins
    /\ budget = [t \in ClientIds |-> IF t \in cls THEN n[t] ELSE 0]
    /\ pc = [t \in ThreadIds |->
                IF t \in WorkerIds
                    THEN (IF t <= threads THEN "wte_check" ELSE "none")
                    ELSE (IF t \in cls THEN "idle" ELSE "none")]
    /\ loc = [t \in ThreadIds |-> NoLocals]
    /\ ginc = <<>>
    /\ genq = <<>>
    /\ gdeq = <<>>
    /\ gdec = 0

\* the memory of a queue before osd_work_queue_alloc has run: the
\* environment of the process is in inputs, a client is about to call
InitAlloc ==
    /\ InitLockHarness
    /\ list = NULL
    /\ tailptr = TailList
    /\ free = NULL
    /\ items = 0
    /\ livethreads = 0
    /\ waiting = FALSE
    /\ exiting = FALSE
    /\ threads = 0
    /\ flags = {}
    /\ doneevent = FALSE
    /\ wakeevent = [w \in WorkerIds |-> FALSE]
    /\ active = [w \in WorkerIds |-> FALSE]
    /\ item = [i \in Items |-> NoItem]
    /\ nalloc = 0
    /\ clients = {3}
    /\ \E e \in EnvValues, n \in PlatformProcs, f \in SUBSET {"MULTI", "IO"} :
          inputs = [parambase |-> {}, auto |-> {},
                    OSDPROCESSORS |-> e, osd_num_processors |-> n, flags |-> f]
    /\ budget = [t \in ClientIds |-> 0]
    /\ pc = [t \in ThreadIds |-> IF t = 3 THEN "qa_alloc" ELSE "none"]
    /\ loc = [t \in ThreadIds |-> NoLocals]
    /\ ginc = <<>>
    /\ genq = <<>>
    /\ gdeq = <<>>
    /\ gdec = 0

Goto(t, to) == pc' = [pc EXCEPT ![t] = to]
Locals(t, r) == loc' = [loc EXCEPT ![t] = r]

\* the items reachable from h along next, h first (cut at a cycle)
RECURSIVE ChainFrom(_, _)
ChainFrom(h, seen) ==
    IF h = NULL \/ h \in seen THEN <<>>
    ELSE <<h>> \o ChainFrom(item[h].next, seen \cup {h})

PendingSeq == ChainFrom(list, {})
FreeSeq == ChainFrom(free, {})
SeqSet(q) == {q[k] : k \in 1 .. Len(q)}

\* --------------------------------------------------- worker_thread_process
\* run by a worker (from worker_thread_entry) and by a client (from
\* queue_multiple on a queue without threads, from queue_wait on a MULTI
\* queue); loc[t].ret is the place the call returns to

\* while (queue->items != 0)
wtp_items(t) ==
    /\ pc[t] = "wtp_items"
    /\ Goto(t, IF items # 0 THEN "wtp_dequeue" ELSE "wtp_waiting")
    /\ UNCHANGED <<harnessVars, queueVars, clients, inputs, budget, loc, histVars>>

\* a dequeue that takes the item and leaves the head where it was
dequeue_list_keep(head) == head

\* the pending list after the critical section of worker_thread_process
dequeue_list(head) == IF head # NULL THEN item[head].next ELSE head

\* lockslot = scalable_lock_acquire; pull the item from the queue;
\* scalable_lock_release; if (item != NULL) ...
wtp_dequeue(t) ==
    /\ pc[t] = "wtp_dequeue"
    /\ Locals(t, [loc[t] EXCEPT !.item = list])
    /\ list' = dequeue_list(list)
    /\ tailptr' = IF list # NULL /\ list' = NULL THEN TailList ELSE tailptr
    /\ gdeq' = IF list # NULL THEN Append(gdeq, item[list].inc) ELSE gdeq
    /\ Goto(t, IF list # NULL THEN "wtp_callback" ELSE "wtp_items")
    /\ UNCHANGED <<harnessVars, free, items, livethreads, waiting, exiting,
                   threads, flags, doneevent, wakeevent, active, item, nalloc,
                   clients, inputs, budget, ginc, genq, gdec>>

\* the history with field f stepped by one for the submission item i holds
Counted(i, f) ==
    LET k == item[i].inc
    IN  IF k \in 1 .. Len(ginc)
            THEN [ginc EXCEPT ![k] = [@ EXCEPT ![f] = @ + 1]]
            ELSE ginc

\* (*item->callback)(item->param): the callback is entered
wtp_callback(t) ==
    /\ pc[t] = "wtp_callback"
    /\ LET i == loc[t].item
       IN  /\ ginc[item[i].inc].runs < MaxRuns
           /\ Locals(t, [loc[t] EXCEPT
                  !.val = CallbackResult(item[i].callback, item[i].param)])
           /\ ginc' = Counted(i, "runs")
    /\ Goto(t, "wtp_result")
    /\ UNCHANGED <<harnessVars, queueVars, clients, inputs, budget, genq, gdeq, gdec>>

\* item->result = the value the callback returned
wtp_result(t) ==
    /\ pc[t] = "wtp_result"
    /\ LET i == loc[t].item
       IN  /\ item' = [item EXCEPT ![i].result = loc[t].val]
           /\ ginc' = Counted(i, "rets")
    /\ Locals(t, [loc[t] EXCEPT !.val = 0])
    /\ Goto(t, "wtp_dec")
    /\ UNCHANGED <<harnessVars, list, tailptr, free, items, livethreads,
                   waiting, exiting, threads, flags, doneevent, wakeevent,
                   active, nalloc, clients, inputs, budget, genq, gdeq, gdec>>

\* osd_interlocked_decrement(&queue->items)
wtp_dec(t) ==
    /\ pc[t] = "wtp_dec"
    /\ items' = osd_interlocked_decrement(items)
    /\ gdec' = gdec + 1
    /\ ginc' = Counted(loc[t].item, "decs")
    /\ Goto(t, "wtp_done")
    /\ UNCHANGED <<harnessVars, list, tailptr, free, livethreads,
                   waiting, exiting, threads, flags, doneevent, wakeevent,
                   active, item, nalloc, clients, inputs, budget, loc, genq, gdeq>>

\* item->done = TRUE
wtp_done(t) ==
    /\ pc[t] = "wtp_done"
    /\ item' = [item EXCEPT ![loc[t].item].done = TRUE]
    /\ ginc' = Counted(loc[t].item, "dones")
    /\ Goto(t, "wtp_flags")
    /\ UNCHANGED <<harnessVars, list, tailptr, free, items, livethreads,
                   waiting, exiting, threads, flags, doneevent, wakeevent,
                   active, nalloc, clients, inputs, budget, loc,
                   genq, gdeq, gdec>>

\* if (item->flags & WORK_ITEM_FLAG_AUTO_RELEASE) osd_work_item_release(item)
wtp_flags(t) ==
    /\ pc[t] = "wtp_flags"
    /\ IF item[loc[t].item].auto
           THEN /\ Locals(t, [loc[t] EXCEPT
                       !.witem = loc[t].item, !.item = NULL,
                       !.inrel = TRUE, !.rret = "wtp_items"])
                /\ Goto(t, "iw_done")
           ELSE /\ Goto(t, "wtp_event")
                /\ UNCHANGED loc
    /\ UNCHANGED <<harnessVars, queueVars, clients, inputs, budget, histVars>>

\* else if (item->event != NULL) osd_event_set(item->event)
wtp_event(t) ==
    /\ pc[t] = "wtp_event"
    /\ LET i == loc[t].item
       IN  /\ item' = IF item[i].event # "none"
                          THEN [item EXCEPT ![i].event =
                                   IF osd_event_set(@) THEN "set" ELSE "clear"]
                          ELSE item
           /\ ginc' = IF item[i].event # "none"
                          THEN Counted(i, "sigs") ELSE ginc
    /\ Locals(t, [loc[t] EXCEPT !.item = NULL])
    /\ Goto(t, "wtp_items")
    /\ UNCHANGED <<harnessVars, list, tailptr, free, items, livethreads,
                   waiting, exiting, threads, flags, doneevent, wakeevent,
                   active, nalloc, clients, inputs, budget, genq, gdeq, gdec>>

\* if (queue->waiting)
wtp_waiting(t) ==
    /\ pc[t] = "wtp_waiting"
    /\ IF waiting
           THEN Goto(t, "wtp_setdone") /\ UNCHANGED loc
           ELSE Goto(t, loc[t].ret) /\ Locals(t, [loc[t] EXCEPT !.ret = ""])
    /\ UNCHANGED <<harnessVars, queueVars, clients, inputs, budget, histVars>>

\* osd_event_set(queue->doneevent), and return
wtp_setdone(t) ==
    /\ pc[t] = "wtp_setdone"
    /\ doneevent' = osd_event_set(doneevent)
    /\ Goto(t, loc[t].ret)
    /\ Locals(t, [loc[t] EXCEPT !.ret = ""])
    /\ UNCHANGED <<harnessVars, list, tailptr, free, items, livethreads,
                   waiting, exiting, threads, flags, wakeevent, active, item,
                   nalloc, clients, inputs, budget, histVars>>


\* ----------------------------------------------------- worker_thread_entry

\* a worker that blocks whatever the queue holds
wte_blocks_always(ex, n) == TRUE

\* if (!queue->exiting && queue->items == 0): the worker blocks on its event
wte_blocks(ex, n) == ~ex /\ n = 0

\* a worker that never leaves its loop
wte_exits_never(ex) == FALSE

\* if (queue->exiting) break
wte_exits(ex) == ex

\* if (!queue->exiting && queue->items == 0) ...; if (queue->exiting) break.
\* exiting is written once, by osd_work_queue_free, which then sets every
\* wake event: the reads of exiting are taken with the read of items
wte_check(t) ==
    /\ pc[t] = "wte_check"
    /\ Goto(t, IF wte_blocks(exiting, items) THEN "wte_wait"
               ELSE IF wte_exits(exiting) THEN "wte_return"
               ELSE "wte_active")
    /\ UNCHANGED <<harnessVars, queueVars, clients, inputs, budget, loc, histVars>>

\* osd_event_wait(thread->wakeevent, INFINITE): auto-reset;
\* if (queue->exiting) break
wte_wait(t) ==
    /\ pc[t] = "wte_wait"
    /\ wakeevent[t]
    /\ wakeevent' = [wakeevent EXCEPT ![t] = FALSE]
    /\ Goto(t, IF wte_exits(exiting) THEN "wte_return" ELSE "wte_active")
    /\ UNCHANGED <<harnessVars, list, tailptr, free, items, livethreads,
                   waiting, exiting, threads, flags, doneevent, active, item,
                   nalloc, clients, inputs, budget, loc, histVars>>

\* thread->active = TRUE
wte_active(t) ==
    /\ pc[t] = "wte_active"
    /\ active' = [active EXCEPT ![t] = TRUE]
    /\ Goto(t, "wte_live")
    /\ UNCHANGED <<harnessVars, list, tailptr, free, items, livethreads,
                   waiting, exiting, threads, flags, doneevent, wakeevent, item,
                   nalloc, clients, inputs, budget, loc, histVars>>

\* osd_interlocked_increment(&queue->livethreads); worker_thread_process
wte_live(t) ==
    /\ pc[t] = "wte_live"
    /\ livethreads' = osd_interlocked_increment(livethreads)
    /\ Locals(t, [loc[t] EXCEPT !.ret = "wte_spin"])
    /\ Goto(t, "wtp_items")
    /\ UNCHANGED <<harnessVars, list, tailptr, free, items, waiting,
                   exiting, threads, flags, doneevent, wakeevent, active, item,
                   nalloc, clients, inputs, budget, histVars>>

\* the spin loop has ended: if (queue->items == 0) break; else process again
wte_spin(t) ==
    /\ pc[t] = "wte_spin"
    /\ IF items = 0
           THEN Goto(t, "wte_inactive") /\ UNCHANGED loc
           ELSE Goto(t, "wtp_items") /\ Locals(t, [loc[t] EXCEPT !.ret = "wte_spin"])
    /\ UNCHANGED <<harnessVars, queueVars, clients, inputs, budget, histVars>>

\* thread->active = FALSE
wte_inactive(t) ==
    /\ pc[t] = "wte_inactive"
    /\ active' = [active EXCEPT ![t] = FALSE]
    /\ Goto(t, "wte_unlive")
    /\ UNCHANGED <<harnessVars, list, tailptr, free, items, livethreads,
                   waiting, exiting, threads, flags, doneevent, wakeevent, item,
                   nalloc, clients, inputs, budget, loc, histVars>>

\* osd_interlocked_decrement(&queue->livethreads)
wte_unlive(t) ==
    /\ pc[t] = "wte_unlive"
    /\ livethreads' = osd_interlocked_decrement(livethreads)
    /\ Goto(t, "wte_check")
    /\ UNCHANGED <<harnessVars, list, tailptr, free, items, waiting,
                   exiting, threads, flags, doneevent, wakeevent, active, item,
                   nalloc, clients, inputs, budget, loc, histVars>>

\* ------------------------------------------------------ osd_work_item_wait
\* on loc[t].witem; called by a client, and by osd_work_item_release
\* (loc[t].inrel) with its timeout of 100 seconds, which the model takes
\* never to expire: a callback returns within 100 seconds

\* the place osd_work_item_wait returns to
iw_after(t) == IF loc[t].inrel THEN "ir_read" ELSE "iw_return"

\* if (item->done) return TRUE
iw_done(t) ==
    /\ pc[t] = "iw_done"
    /\ IF item[loc[t].witem].done
           THEN /\ Goto(t, iw_after(t))
                /\ Locals(t, [loc[t] EXCEPT !.ires = ~loc[t].inrel])
           ELSE /\ Goto(t, "iw_event")
                /\ UNCHANGED loc
    /\ UNCHANGED <<harnessVars, queueVars, clients, inputs, budget, histVars>>

\* item->event = osd_event_alloc(TRUE, FALSE), or osd_event_reset(item->event)
iw_event(t) ==
    /\ pc[t] = "iw_event"
    /\ item' = [item EXCEPT ![loc[t].witem].event =
                   IF @ = "none" THEN "clear"
                   ELSE IF osd_event_reset(@) THEN "set" ELSE "clear"]
    /\ Goto(t, "iw_recheck")
    /\ UNCHANGED <<harnessVars, list, tailptr, free, items, livethreads,
                   waiting, exiting, threads, flags, doneevent, wakeevent,
                   active, nalloc, clients, inputs, budget, loc, histVars>>

\* else if (!item->done)
iw_recheck(t) ==
    /\ pc[t] = "iw_recheck"
    /\ Goto(t, IF item[loc[t].witem].done THEN "iw_final" ELSE "iw_block")
    /\ UNCHANGED <<harnessVars, queueVars, clients, inputs, budget, loc, histVars>>

\* osd_event_wait(item->event, timeout): the event is signalled, or (not
\* in osd_work_item_release) the timeout expires first
iw_block(t) ==
    /\ pc[t] = "iw_block"
    /\ \/ /\ item[loc[t].witem].event = "set"
          /\ UNCHANGED loc
       \/ /\ item[loc[t].witem].event # "set"
          /\ ~loc[t].inrel
          /\ Locals(t, [loc[t] EXCEPT !.timedout = TRUE])
    /\ Goto(t, "iw_final")
    /\ UNCHANGED <<harnessVars, queueVars, clients, inputs, budget, histVars>>

\* return item->done
iw_final(t) ==
    /\ pc[t] = "iw_final"
    /\ Goto(t, iw_after(t))
    /\ Locals(t, [loc[t] EXCEPT
           !.ires = IF loc[t].inrel THEN FALSE ELSE item[loc[t].witem].done])
    /\ UNCHANGED <<harnessVars, queueVars, clients, inputs, budget, histVars>>

\* the client has its answer
iw_return(t) ==
    /\ pc[t] = "iw_return"
    /\ Goto(t, "idle")
    /\ Locals(t, [NoLocals EXCEPT !.held = loc[t].held])
    /\ UNCHANGED <<harnessVars, queueVars, clients, inputs, budget, histVars>>

\* --------------------------------------------------- osd_work_item_release

\* next = item->queue->free; item->next = next
ir_read(t) ==
    /\ pc[t] = "ir_read"
    /\ item' = [item EXCEPT ![loc[t].witem].next = free]
    /\ Locals(t, [loc[t] EXCEPT !.nxt = free])
    /\ Goto(t, "ir_cas")
    /\ UNCHANGED <<harnessVars, list, tailptr, free, items, livethreads,
                   waiting, exiting, threads, flags, doneevent, wakeevent,
                   active, nalloc, clients, inputs, budget, histVars>>

\* osd_compare_exchange_ptr(&item->queue->free, next, item)
ir_cas(t) ==
    /\ pc[t] = "ir_cas"
    /\ IF free = loc[t].nxt
           THEN /\ free' = loc[t].witem
                /\ Goto(t, loc[t].rret)
                /\ Locals(t, [loc[t] EXCEPT !.witem = NULL, !.nxt = NULL,
                                 !.rret = "", !.inrel = FALSE])
           ELSE /\ Goto(t, "ir_read")
                /\ Locals(t, [loc[t] EXCEPT !.nxt = NULL])
                /\ UNCHANGED free
    /\ UNCHANGED <<harnessVars, list, tailptr, items, livethreads,
                   waiting, exiting, threads, flags, doneevent, wakeevent,
                   active, item, nalloc, clients, inputs, budget, histVars>>


\* -------------------------------------------- osd_work_item_queue_multiple

\* a client calls osd_work_item_queue_multiple(queue, cb, n, base, step, flags)
qm_call(t) ==
    /\ pc[t] = "idle"
    /\ \E n \in 1 .. MaxCount, cb \in Callbacks, base \in inputs.parambase,
          step \in ParamSteps, auto \in inputs.auto :
          /\ n <= budget[t]
          /\ budget' = [budget EXCEPT ![t] = @ - n]
          /\ Locals(t, [loc[t] EXCEPT
                 !.numitems = n, !.callback = cb,
                 !.parambase = base, !.paramstep = step, !.auto = auto,
                 !.itemlist = NULL, !.item_tailptr = TailLocal(t),
                 !.call = <<t, budget[t]>>])
    /\ Goto(t, "qm_pop")
    /\ UNCHANGED <<harnessVars, queueVars, clients, inputs, histVars>>

\* a client calls osd_work_item_queue_multiple with numitems == 0: the loop
\* over the items is not entered, itemlist stays NULL and item_tailptr stays
\* &itemlist, the address of a local of this call
qm_call_none(t) ==
    /\ pc[t] = "idle"
    /\ \E cb \in Callbacks, base \in inputs.parambase,
          step \in ParamSteps, auto \in inputs.auto :
          Locals(t, [loc[t] EXCEPT
              !.numitems = 0, !.callback = cb,
              !.parambase = base, !.paramstep = step, !.auto = auto,
              !.itemlist = NULL, !.item_tailptr = TailLocal(t),
              !.call = <<t, budget[t]>>])
    /\ Goto(t, "qm_splice")
    /\ UNCHANGED <<harnessVars, queueVars, clients, inputs, budget, histVars>>

\* item = queue->free; if there is none, item = malloc(sizeof(*item))
qm_pop(t) ==
    /\ pc[t] = "qm_pop"
    /\ IF free # NULL
           THEN /\ Locals(t, [loc[t] EXCEPT !.sitem = free])
                /\ Goto(t, "qm_next")
                /\ UNCHANGED <<item, nalloc>>
           ELSE /\ nalloc < MaxItems
                /\ nalloc' = nalloc + 1
                /\ item' = [item EXCEPT ![nalloc + 1] = NoItem]
                /\ Locals(t, [loc[t] EXCEPT !.sitem = nalloc + 1])
                /\ Goto(t, "qm_fill")
    /\ UNCHANGED <<harnessVars, list, tailptr, free, items, livethreads,
                   waiting, exiting, threads, flags, doneevent, wakeevent,
                   active, clients, inputs, budget, histVars>>

\* item = queue->free is NULL and malloc(sizeof(*item)) returns NULL:
\* return NULL
qm_nomem(t) ==
    /\ pc[t] = "qm_pop"
    /\ free = NULL
    /\ Goto(t, "qm_failed")
    /\ UNCHANGED <<harnessVars, queueVars, clients, inputs, budget, loc, histVars>>

\* osd_work_item_queue_multiple has returned NULL for want of memory; its
\* locals are gone
qm_failed(t) ==
    /\ pc[t] = "qm_failed"
    /\ Locals(t, [NoLocals EXCEPT !.held = loc[t].held])
    /\ Goto(t, "idle")
    /\ UNCHANGED <<harnessVars, queueVars, clients, inputs, budget, histVars>>

\* the third argument of the compare-exchange: item->next
qm_next(t) ==
    /\ pc[t] = "qm_next"
    /\ Locals(t, [loc[t] EXCEPT !.nxt = item[loc[t].sitem].next])
    /\ Goto(t, "qm_cas")
    /\ UNCHANGED <<harnessVars, queueVars, clients, inputs, budget, histVars>>

\* osd_compare_exchange_ptr(&queue->free, item, item->next)
qm_cas(t) ==
    /\ pc[t] = "qm_cas"
    /\ IF free = loc[t].sitem
           THEN /\ free' = loc[t].nxt
                /\ Goto(t, "qm_fill")
                /\ Locals(t, [loc[t] EXCEPT !.nxt = NULL])
           ELSE /\ Goto(t, "qm_pop")
                /\ Locals(t, [loc[t] EXCEPT !.nxt = NULL, !.sitem = NULL])
                /\ UNCHANGED free
    /\ UNCHANGED <<harnessVars, list, tailptr, items, livethreads,
                   waiting, exiting, threads, flags, doneevent, wakeevent,
                   active, item, nalloc, clients, inputs, budget, histVars>>

\* the item after "fill in the basics" (its event and its queue stay)
qm_filled(old, cb, param, auto, k) ==
    [old EXCEPT !.next = NULL, !.callback = cb, !.param = param,
                !.result = NULL, !.auto = auto, !.done = FALSE, !.inc = k]

\* fill in the basics; *item_tailptr = item; item_tailptr = &item->next;
\* parambase += paramstep; itemnum++ (back to 0 when the loop ends)
qm_fill(t) ==
    /\ pc[t] = "qm_fill"
    /\ LET i == loc[t].sitem
           k == Len(ginc) + 1
           filled == [item EXCEPT ![i] = qm_filled(@, loc[t].callback,
                                           loc[t].parambase, loc[t].auto, k)]
           tp == loc[t].item_tailptr
       IN  /\ item' = IF tp.k = "next"
                          THEN [filled EXCEPT ![tp.i].next = i]
                          ELSE filled
           /\ ginc' = Append(ginc, [item |-> i, call |-> loc[t].call,
                                    idx |-> loc[t].itemnum,
                                    runs |-> 0, rets |-> 0, decs |-> 0,
                                    dones |-> 0, sigs |-> 0])
           /\ Locals(t, [loc[t] EXCEPT
                  !.itemlist = IF tp.k = "local" THEN i ELSE @,
                  !.item_tailptr = TailNext(i),
                  !.parambase = @ + loc[t].paramstep,
                  !.itemnum = IF @ + 1 < loc[t].numitems THEN @ + 1 ELSE 0,
                  !.chain = Append(@, k),
                  !.sitem = NULL])
           /\ Goto(t, IF loc[t].itemnum + 1 < loc[t].numitems
                          THEN "qm_pop" ELSE "qm_splice")
    /\ UNCHANGED <<harnessVars, list, tailptr, free, items, livethreads,
                   waiting, exiting, threads, flags, doneevent, wakeevent,
                   active, nalloc, clients, inputs, budget, genq, gdeq, gdec>>

\* lockslot = scalable_lock_acquire; *queue->tailptr = itemlist;
\* queue->tailptr = item_tailptr; scalable_lock_release
qm_splice(t) ==
    /\ pc[t] = "qm_splice"
    /\ list' = IF tailptr.k = "list" THEN loc[t].itemlist ELSE list
    /\ item' = IF tailptr.k = "next"
                   THEN [item EXCEPT ![tailptr.i].next = loc[t].itemlist]
                   ELSE item
    /\ tailptr' = loc[t].item_tailptr
    /\ genq' = genq \o loc[t].chain
    /\ Locals(t, [loc[t] EXCEPT !.chain = <<>>, !.item_tailptr = TailList])
    /\ Goto(t, "qm_add")
    /\ UNCHANGED <<harnessVars, free, items, livethreads, waiting, exiting,
                   threads, flags, doneevent, wakeevent, active, nalloc,
                   clients, inputs, budget, ginc, gdeq, gdec>>

\* osd_interlocked_add(&queue->items, numitems)
qm_add(t) ==
    /\ pc[t] = "qm_add"
    /\ items' = osd_interlocked_add(items, loc[t].numitems)
    /\ Goto(t, "qm_live")
    /\ UNCHANGED <<harnessVars, list, tailptr, free, livethreads,
                   waiting, exiting, threads, flags, doneevent, wakeevent,
                   active, item, nalloc, clients, inputs, budget, loc, histVars>>

\* a submit that never runs the queue on its own thread
qm_after_wake_skip == "qm_return"

\* after the wake loop: if (queue->threads == 0) worker_thread_process(...)
qm_after_wake == IF threads = 0 THEN "wtp_items" ELSE "qm_return"

\* if (queue->livethreads < queue->threads)
qm_live(t) ==
    /\ pc[t] = "qm_live"
    /\ IF livethreads < threads
           THEN /\ Goto(t, "qm_active")
                /\ Locals(t, [loc[t] EXCEPT !.threadnum = 0])
           ELSE /\ Goto(t, qm_after_wake)
                /\ Locals(t, [loc[t] EXCEPT !.numitems = 0,
                       !.ret = IF threads = 0 THEN "qm_return" ELSE ""])
    /\ UNCHANGED <<harnessVars, queueVars, clients, inputs, budget, histVars>>

\* for (threadnum ...) if (!thread->active)
qm_active(t) ==
    /\ pc[t] = "qm_active"
    /\ IF ~active[loc[t].threadnum + 1]
           THEN /\ Goto(t, "qm_wake")
                /\ UNCHANGED loc
           ELSE IF loc[t].threadnum + 1 < threads
                    THEN /\ Goto(t, "qm_active")
                         /\ Locals(t, [loc[t] EXCEPT !.threadnum = @ + 1])
                    ELSE /\ Goto(t, qm_after_wake)
                         /\ Locals(t, [loc[t] EXCEPT !.threadnum = 0,
                                                     !.numitems = 0])
    /\ UNCHANGED <<harnessVars, queueVars, clients, inputs, budget, histVars>>

\* osd_event_set(thread->wakeevent); if (--numitems == 0) break
qm_wake(t) ==
    /\ pc[t] = "qm_wake"
    /\ wakeevent' = [wakeevent EXCEPT ![loc[t].threadnum + 1] = osd_event_set(@)]
    /\ IF loc[t].numitems - 1 # 0 /\ loc[t].threadnum + 1 < threads
           THEN /\ Goto(t, "qm_active")
                /\ Locals(t, [loc[t] EXCEPT !.threadnum = @ + 1,
                                            !.numitems = @ - 1])
           ELSE /\ Goto(t, qm_after_wake)
                /\ Locals(t, [loc[t] EXCEPT !.threadnum = 0, !.numitems = 0])
    /\ UNCHANGED <<harnessVars, list, tailptr, free, items, livethreads,
                   waiting, exiting, threads, flags, doneevent, active, item,
                   nalloc, clients, inputs, budget, histVars>>

\* return (flags & WORK_ITEM_FLAG_AUTO_RELEASE) ? NULL : itemlist
queue_multiple_result(auto, itemlist) == IF auto THEN NULL ELSE itemlist

\* osd_work_item_queue_multiple returns; the client keeps the handle
qm_return(t) ==
    /\ pc[t] = "qm_return"
    /\ LET h == queue_multiple_result(loc[t].auto, loc[t].itemlist)
       IN  Locals(t, [NoLocals EXCEPT
               !.held = IF h # NULL THEN loc[t].held \cup {h} ELSE loc[t].held])
    /\ Goto(t, "idle")
    /\ UNCHANGED <<harnessVars, queueVars, clients, inputs, budget, histVars>>

\* ----------------------------------------------------- osd_work_queue_wait

\* a client calls osd_work_queue_wait(queue, timeout);
\* if (queue->threads == 0) return TRUE
qw_call(t) ==
    /\ pc[t] = "idle"
    /\ Locals(t, [loc[t] EXCEPT !.qres = (threads = 0)])
    /\ Goto(t, IF threads = 0 THEN "qw_return" ELSE "qw_items")
    /\ UNCHANGED <<harnessVars, queueVars, clients, inputs, budget, histVars>>

\* a queue_wait that helps on no queue
qw_helps_never(f) == FALSE

\* if (queue->flags & WORK_QUEUE_FLAG_MULTI)
qw_helps(f) == "MULTI" \in f

\* if (queue->items == 0) return TRUE; a MULTI queue helps out and returns TRUE
qw_items(t) ==
    /\ pc[t] = "qw_items"
    /\ IF items = 0
           THEN /\ Goto(t, "qw_return")
                /\ Locals(t, [loc[t] EXCEPT !.qres = TRUE])
           ELSE IF qw_helps(flags)
                    THEN /\ Goto(t, "wtp_items")
                         /\ Locals(t, [loc[t] EXCEPT !.qres = TRUE,
                                                     !.ret = "qw_return"])
                    ELSE /\ Goto(t, "qw_reset")
                         /\ UNCHANGED loc
    /\ UNCHANGED <<harnessVars, queueVars, clients, inputs, budget, histVars>>

\* osd_event_reset(queue->doneevent)
qw_reset(t) ==
    /\ pc[t] = "qw_reset"
    /\ doneevent' = osd_event_reset(doneevent)
    /\ Goto(t, "qw_waiting")
    /\ UNCHANGED <<harnessVars, list, tailptr, free, items, livethreads,
                   waiting, exiting, threads, flags, wakeevent, active, item,
                   nalloc, clients, inputs, budget, loc, histVars>>

\* queue->waiting = TRUE
qw_waiting(t) ==
    /\ pc[t] = "qw_waiting"
    /\ waiting' = TRUE
    /\ Goto(t, "qw_recheck")
    /\ UNCHANGED <<harnessVars, list, tailptr, free, items, livethreads,
                   exiting, threads, flags, doneevent, wakeevent, active, item,
                   nalloc, clients, inputs, budget, loc, histVars>>

\* if (queue->items != 0)
qw_recheck(t) ==
    /\ pc[t] = "qw_recheck"
    /\ Goto(t, IF items # 0 THEN "qw_block" ELSE "qw_clear")
    /\ UNCHANGED <<harnessVars, queueVars, clients, inputs, budget, loc, histVars>>

\* osd_event_wait(queue->doneevent, timeout): the event is signalled, or
\* the timeout expires first
qw_block(t) ==
    /\ pc[t] = "qw_block"
    /\ \/ /\ doneevent
          /\ UNCHANGED loc
       \/ /\ ~doneevent
          /\ Locals(t, [loc[t] EXCEPT !.timedout = TRUE])
    /\ Goto(t, "qw_clear")
    /\ UNCHANGED <<harnessVars, queueVars, clients, inputs, budget, histVars>>

\* queue->waiting = FALSE
qw_clear(t) ==
    /\ pc[t] = "qw_clear"
    /\ waiting' = FALSE
    /\ Goto(t, "qw_final")
    /\ UNCHANGED <<harnessVars, list, tailptr, free, items, livethreads,
                   exiting, threads, flags, doneevent, wakeevent, active, item,
                   nalloc, clients, inputs, budget, loc, histVars>>

\* return (queue->items == 0)
qw_final(t) ==
    /\ pc[t] = "qw_final"
    /\ Locals(t, [loc[t] EXCEPT !.qres = (items = 0)])
    /\ Goto(t, "qw_return")
    /\ UNCHANGED <<harnessVars, queueVars, clients, inputs, budget, histVars>>

\* osd_work_queue_wait returns loc[t].qres
qw_return(t) ==
    /\ pc[t] = "qw_return"
    /\ Locals(t, [NoLocals EXCEPT !.held = loc[t].held])
    /\ Goto(t, "idle")
    /\ UNCHANGED <<harnessVars, queueVars, clients, inputs, budget, histVars>>

\* ------------------------------------------------- the clients' item calls

\* a client calls osd_work_item_wait(item, timeout) on a handle it holds
iw_call(t) ==
    /\ pc[t] = "idle"
    /\ \E h \in loc[t].held :
          Locals(t, [loc[t] EXCEPT !.witem = h, !.inrel = FALSE])
    /\ Goto(t, "iw_done")
    /\ UNCHANGED <<harnessVars, queueVars, clients, inputs, budget, histVars>>

\* a client calls osd_work_item_release(item) and gives the handle up
ir_call(t) ==
    /\ pc[t] = "idle"
    /\ \E h \in loc[t].held :
          Locals(t, [loc[t] EXCEPT !.witem = h,
                        !.inrel = TRUE, !.rret = "idle", !.held = @ \ {h}])
    /\ Goto(t, "iw_done")
    /\ UNCHANGED <<harnessVars, queueVars, clients, inputs, budget, histVars>>

\* ---------------------------------------------------- osd_work_queue_alloc

\* osd_work_queue_alloc(flags) with every allocation succeeding: the queue
\* members, the number of threads, and the worker threads at their entry
osd_work_queue_alloc(t) ==
    /\ pc[t] = "qa_alloc"
    /\ LET numprocs == effective_num_processors(inputs.OSDPROCESSORS,
                                                inputs.osd_num_processors)
           n == queue_threads(numprocs, inputs.flags)
       IN  /\ threads' = n
           /\ pc' = [u \in ThreadIds |->
                        IF u = t THEN "idle"
                        ELSE IF u \in WorkerIds /\ u <= n THEN "wte_check"
                        ELSE pc[u]]
    /\ tailptr' = TailList
    /\ flags' = inputs.flags
    /\ doneevent' = TRUE
    /\ wakeevent' = [w \in WorkerIds |-> FALSE]
    /\ UNCHANGED <<harnessVars, list, free, items, livethreads, waiting,
                   exiting, active, item, nalloc, clients, inputs, budget,
                   loc, histVars>>

\* ----------------------------------------------------- osd_work_queue_free
\* called by a client between its other calls; loc[t].threadnum walks the
\* thread records.  An event that has been freed is left as it was: nothing
\* uses it again.

\* a client calls osd_work_queue_free(queue);
\* if (queue->threads > 0 && queue->thread != NULL)
qf_call(t) ==
    /\ pc[t] = "idle"
    /\ Goto(t, IF threads > 0 THEN "qf_exiting" ELSE "qf_events")
    /\ UNCHANGED <<harnessVars, queueVars, clients, inputs, budget, loc, histVars>>

\* queue->exiting = TRUE
qf_exiting(t) ==
    /\ pc[t] = "qf_exiting"
    /\ exiting' = TRUE
    /\ Locals(t, [loc[t] EXCEPT !.threadnum = 0])
    /\ Goto(t, "qf_signal")
    /\ UNCHANGED <<harnessVars, list, tailptr, free, items, livethreads,
                   waiting, threads, flags, doneevent, wakeevent, active, item,
                   nalloc, clients, inputs, budget, histVars>>

\* for (threadnum ...) osd_event_set(thread->wakeevent)
qf_signal(t) ==
    /\ pc[t] = "qf_signal"
    /\ wakeevent' = [wakeevent EXCEPT ![loc[t].threadnum + 1] = osd_event_set(@)]
    /\ IF loc[t].threadnum + 1 < threads
           THEN /\ Goto(t, "qf_signal")
                /\ Locals(t, [loc[t] EXCEPT !.threadnum = @ + 1])
           ELSE /\ Goto(t, "qf_join")
                /\ Locals(t, [loc[t] EXCEPT !.threadnum = 0])
    /\ UNCHANGED <<harnessVars, list, tailptr, free, items, livethreads,
                   waiting, exiting, threads, flags, doneevent, active, item,
                   nalloc, clients, inputs, budget, histVars>>

\* for (threadnum ...) osd_thread_wait_free(thread->handle), which returns
\* when worker_thread_entry has returned; osd_event_free(thread->wakeevent);
\* after the loop free(queue->thread)
qf_join(t) ==
    /\ pc[t] = "qf_join"
    /\ pc[loc[t].threadnum + 1] = "wte_return"
    /\ IF loc[t].threadnum + 1 < threads
           THEN /\ Goto(t, "qf_join")
                /\ Locals(t, [loc[t] EXCEPT !.threadnum = @ + 1])
           ELSE /\ Goto(t, "qf_events")
                /\ Locals(t, [loc[t] EXCEPT !.threadnum = 0])
    /\ UNCHANGED <<harnessVars, queueVars, clients, inputs, budget, histVars>>

\* if (queue->doneevent != NULL) osd_event_free(queue->doneevent)
qf_events(t) ==
    /\ pc[t] = "qf_events"
    /\ Goto(t, "qf_freelist")
    /\ UNCHANGED <<harnessVars, queueVars, clients, inputs, budget, loc, histVars>>

\* a walk that frees nothing
qf_freed_none(h) == item

\* the items a walk from h along next frees, each marked freed
qf_freed(h) ==
    [i \in Items |->
        IF i \in SeqSet(ChainFrom(h, {})) THEN [item[i] EXCEPT !.freed = TRUE]
        ELSE item[i]]

\* free all items in the free list: while (queue->free != NULL) ...
qf_freelist(t) ==
    /\ pc[t] = "qf_freelist"
    /\ item' = qf_freed(free)
    /\ free' = NULL
    /\ Goto(t, "qf_list")
    /\ UNCHANGED <<harnessVars, list, tailptr, items, livethreads,
                   waiting, exiting, threads, flags, doneevent, wakeevent,
                   active, nalloc, clients, inputs, budget, loc, histVars>>

\* free all items in the active list: while (queue->list != NULL) ...;
\* free(queue), and osd_work_queue_free returns
qf_list(t) ==
    /\ pc[t] = "qf_list"
    /\ item' = qf_freed(list)
    /\ list' = NULL
    /\ Goto(t, "freed")
    /\ UNCHANGED <<harnessVars, tailptr, free, items, livethreads,
                   waiting, exiting, threads, flags, doneevent, wakeevent,
                   active, nalloc, clients, inputs, budget, loc, histVars>>

\* ------------------------------------------------------- specifications

\* worker_thread_entry
StepEntry(t) ==
    \/ wte_check(t) \/ wte_wait(t) \/ wte_active(t) \/ wte_live(t)
    \/ wte_spin(t) \/ wte_inactive(t) \/ wte_unlive(t)

\* worker_thread_process, with the release of an auto-release item
StepProcess(t) ==
    \/ wtp_items(t) \/ wtp_dequeue(t)
    \/ wtp_callback(t) \/ wtp_result(t) \/ wtp_dec(t) \/ wtp_done(t)
    \/ wtp_flags(t) \/ wtp_waiting(t)
    \/ iw_done(t) \/ ir_read(t) \/ ir_cas(t)

\* osd_work_item_queue_multiple
StepSubmit(t) ==
    \/ qm_call(t) \/ qm_pop(t) \/ qm_next(t) \/ qm_cas(t) \/ qm_fill(t)
    \/ qm_splice(t) \/ qm_add(t) \/ qm_live(t) \/ qm_return(t)

\* the wake loop of queue_multiple and the hand-over to a waiting client
StepWake(t) ==
    \/ qm_active(t) \/ qm_wake(t) \/ wtp_event(t) \/ wtp_setdone(t)

\* osd_work_queue_wait
StepQueueWait(t) ==
    \/ qw_call(t) \/ qw_items(t) \/ qw_reset(t) \/ qw_waiting(t)
    \/ qw_recheck(t) \/ qw_block(t) \/ qw_clear(t) \/ qw_final(t)
    \/ qw_return(t)

\* osd_work_item_wait and osd_work_item_release called by a client
StepItem(t) ==
    \/ iw_call(t) \/ ir_call(t)
    \/ iw_event(t) \/ iw_recheck(t) \/ iw_block(t) \/ iw_final(t)
    \/ iw_return(t)

Step(t) ==
    \/ StepEntry(t) \/ StepProcess(t) \/ StepSubmit(t) \/ StepWake(t)
    \/ StepQueueWait(t) \/ StepItem(t)

Next == \E t \in ThreadIds : Step(t)

\* one client thread that submits, waits for the queue, waits for items and
\* releases them, and a queue of any flavour
Init ==
    /\ InitLockHarness
    /\ InitQueue(Configs, {3}, [t \in {3} |-> MaxSubmitted], AnyInputs)

Spec == Init /\ [][Next]_vars

\* one client thread that submits and waits for the queue only
StepWait(t) ==
    \/ StepEntry(t) \/ StepProcess(t) \/ StepSubmit(t) \/ StepWake(t)
    \/ StepQueueWait(t)

NextWait == \E t \in ThreadIds : StepWait(t)

SpecWait == Init /\ [][NextWait]_vars

\* the same client on a MULTI queue on one, two or three processors (no
\* worker, one, two), or on an IO queue, whose queue_wait blocks
MultiConfigs == { [numprocs |-> 1, flags |-> {"MULTI"}],
                  [numprocs |-> 2, flags |-> {"MULTI"}],
                  [numprocs |-> 3, flags |-> {"MULTI"}],
                  [numprocs |-> 1, flags |-> {"IO"}] }

InitMulti ==
    /\ InitLockHarness
    /\ InitQueue(MultiConfigs, {3}, [t \in {3} |-> MaxSubmitted], AnyInputs)

SpecMulti == InitMulti /\ [][NextWait]_vars

\* the same under fair scheduling: every thread inside a call goes on, a
\* worker goes on, and a client need not start another call
Running(t) ==
    \/ StepEntry(t) \/ StepProcess(t) \/ StepWake(t)
    \/ qm_pop(t) \/ qm_next(t) \/ qm_cas(t) \/ qm_fill(t)
    \/ qm_splice(t) \/ qm_add(t) \/ qm_live(t) \/ qm_return(t)
    \/ qw_items(t) \/ qw_reset(t) \/ qw_waiting(t)
    \/ qw_recheck(t) \/ qw_block(t) \/ qw_clear(t) \/ qw_final(t)
    \/ qw_return(t)

SpecWaitFair ==
    /\ Init
    /\ [][NextWait]_vars
    /\ \A t \in ThreadIds : WF_vars(Running(t))

\* one client that submits, also with numitems == 0, and waits for the
\* queue.  After such a call queue->tailptr holds the address of a local of
\* a call that has returned; the write through it at the next splice lands
\* on the stack of the submitting thread and on nothing of the queue or of
\* an item, whichever stack slot it hits, so it leaves the queue as it is
NextZero == \E t \in ThreadIds : StepWait(t) \/ qm_call_none(t)

SpecZero == Init /\ [][NextZero]_vars

\* one client that submits and waits for the queue, with malloc failing at
\* any allocation of an item
NextNoMem == \E t \in ThreadIds : StepWait(t) \/ qm_nomem(t) \/ qm_failed(t)

SpecNoMem == Init /\ [][NextNoMem]_vars

\* the construction of a queue alone, for every environment and flags
NextAlloc == \E t \in ClientIds : osd_work_queue_alloc(t)

SpecAlloc == InitAlloc /\ [][NextAlloc]_vars

\* osd_work_queue_free
StepFree(t) ==
    \/ qf_call(t) \/ qf_exiting(t) \/ qf_signal(t) \/ qf_join(t)
    \/ qf_events(t) \/ qf_freelist(t) \/ qf_list(t)

\* one client that submits, waits for the queue, and in the end frees it
NextFree == \E t \in ThreadIds : StepWait(t) \/ StepFree(t)

SpecFree == Init /\ [][NextFree]_vars

\* the same under fair scheduling: a thread inside osd_work_queue_free goes on
Freeing(t) ==
    \/ qf_exiting(t) \/ qf_signal(t) \/ qf_join(t)
    \/ qf_events(t) \/ qf_freelist(t) \/ qf_list(t)

SpecFreeFair ==
    /\ Init
    /\ [][NextFree]_vars
    /\ \A t \in ThreadIds : WF_vars(Running(t) \/ Freeing(t))

\* the lock alone, under the harness threads
InitLock ==
    /\ InitLockHarness
    /\ InitQueue({[numprocs |-> 1, flags |-> {}]}, {}, <<>>, AnyInputs)

NextLock ==
    \/ lt_acquire_ticket
    \/ lt_acquire_cas
    \/ lt_read
    \/ lt_write
    \/ lt_release

SpecLock == InitLock /\ [][NextLock]_vars

\* the lock alone, its threads acquiring and releasing for ever; a thread
\* that can take a step for good takes it
NextLockFair ==
    \/ lf_acquire_ticket
    \/ lf_acquire_cas
    \/ lt_release
    \/ lf_first_ticket
    \/ lf_first_cas
    \/ lf_first_release

SpecLockFair ==
    /\ InitLock
    /\ [][NextLockFair]_vars
    /\ WF_vars(lf_acquire_ticket)
    /\ WF_vars(lf_acquire_cas)
    /\ WF_vars(lt_release)
    /\ WF_vars(lf_first_ticket)
    /\ WF_vars(lf_first_cas)
    /\ WF_vars(lf_first_release)

\* two clients that submit auto-release items to a queue without threads:
\* each runs the items on its own thread from inside queue_multiple
InitClients ==
    /\ InitLockHarness
    /\ InitQueue({[numprocs |-> 1, flags |-> {}]}, {3, 4},
                 [t \in {3, 4} |-> IF t = 3 THEN MaxSubmitted
                                            ELSE MaxSubmitted + 1],
                 AutoInputs)

NextClients == \E t \in ClientIds : StepProcess(t) \/ StepSubmit(t)

SpecClients == InitClients /\ [][NextClients]_vars

\* ------------------------------------------------------------ properties

\* osd_work_queue_wait is about to return TRUE to client t
Returned(t) == pc[t] = "qw_return" /\ loc[t].qres

\* the submissions made so far, as indices of the history
Submitted == 1 .. Len(ginc)

\* C1: for a single client, whenever queue_wait returns true the callback of
\* every item submitted has been invoked exactly once and has returned, and
\* the items counter is 0; for a queue without workers, with one worker, and
\* a MULTI queue whose caller helps.
C1_DrainedExactlyOnce ==
    \A t \in clients : Returned(t) =>
        /\ items = 0
        /\ \A k \in Submitted : ginc[k].runs = 1 /\ ginc[k].rets = 1

\* C1 witness: queue_wait returns true on a queue with a worker after two
\* items were submitted and run
C1_Witness ==
    \E t \in clients :
        /\ Returned(t)
        /\ threads >= 1
        /\ Len(ginc) = 2
        /\ \A k \in Submitted : ginc[k].runs = 1

\* C2: for a single client, at the instant queue_wait returns true every
\* submitted item that is not auto-release (and not released since) has
\* done = TRUE and a result equal to its callback's value on its parameter.
C2_DoneAndResult ==
    \A t \in clients : Returned(t) =>
        \A i \in 1 .. nalloc :
            (~item[i].auto /\ i \notin SeqSet(FreeSeq)) =>
                /\ item[i].done
                /\ item[i].result = CallbackResult(item[i].callback, item[i].param)

\* C3: in every state 0 <= items <= submitted - counted: the items counter is
\* never negative and never above the number of items enqueued so far minus
\* the number of completions counted so far.
C3_ItemsBounds == 0 <= items /\ items <= Len(genq) - gdec

\* p is an initial part of q
IsPrefix(p, q) ==
    /\ Len(p) <= Len(q)
    /\ \A k \in 1 .. Len(p) : p[k] = q[k]

\* where submission k stands in the order of enqueues (0: not enqueued)
EnqueuePos(k) ==
    IF \E j \in 1 .. Len(genq) : genq[j] = k
        THEN CHOOSE j \in 1 .. Len(genq) : genq[j] = k
        ELSE 0

\* the threads that run worker_thread_process on this queue
Drainers ==
    IF threads = 0 THEN clients
    ELSE {w \in WorkerIds : w <= threads}
             \cup (IF "MULTI" \in flags THEN clients ELSE {})

\* C4: items leave the pending list in the order they entered it: the
\* dequeues so far, over all draining threads, are an initial part of the
\* enqueues; the items of one submit call enter contiguously, in increasing
\* index; and with one draining thread the callbacks are invoked in the
\* order of submission (when a callback has just been entered, exactly the
\* items enqueued up to it have been entered).
C4_FifoOrder ==
    /\ IsPrefix(gdeq, genq)
    /\ \A j \in 1 .. Len(genq) :
          \/ ginc[genq[j]].idx = 0
          \/ /\ j > 1
             /\ ginc[genq[j - 1]].call = ginc[genq[j]].call
             /\ ginc[genq[j - 1]].idx = ginc[genq[j]].idx - 1
    /\ Cardinality(Drainers) = 1 =>
          \A t \in ThreadIds : pc[t] = "wtp_result" =>
              LET p == EnqueuePos(item[loc[t].item].inc)
              IN  /\ p > 0
                  /\ \A j \in 1 .. Len(genq) :
                        ginc[genq[j]].runs = IF j <= p THEN 1 ELSE 0

\* the items a submit call of thread t has popped or allocated and not yet
\* spliced into the pending list
Building(t) ==
    IF pc[t] \in {"qm_pop", "qm_next", "qm_cas", "qm_fill", "qm_splice"}
        THEN SeqSet(ChainFrom(loc[t].itemlist, {}))
                 \cup (IF pc[t] = "qm_fill" THEN {loc[t].sitem} ELSE {})
        ELSE {}

\* the threads that have item i in hand: they build it into a submission,
\* execute it (from the dequeue until done is set), or push it onto the
\* free list
InHand(i) ==
    {t \in ThreadIds :
        \/ i \in Building(t)
        \/ /\ loc[t].item = i
           /\ pc[t] \in {"wtp_callback", "wtp_result", "wtp_dec", "wtp_done"}
        \/ pc[t] \in {"ir_read", "ir_cas"} /\ loc[t].witem = i}

\* the list from h runs into itself
RECURSIVE Cyclic(_, _)
Cyclic(h, seen) ==
    IF h = NULL THEN FALSE
    ELSE IF h \in seen THEN TRUE
    ELSE Cyclic(item[h].next, seen \cup {h})

\* C6: item ownership is exclusive, also with several clients submitting at
\* once: no item is on the free list while it is pending, or while a thread
\* builds, executes or releases it; no item is pending while a thread has
\* it in hand; no item is in the hand of two threads (a popped item is not
\* given to two submit calls); and no item is twice on a list.
C6_ExclusiveOwnership ==
    /\ \A i \in 1 .. nalloc :
          /\ ~(i \in SeqSet(FreeSeq) /\ i \in SeqSet(PendingSeq))
          /\ i \in SeqSet(FreeSeq) => InHand(i) = {}
          /\ i \in SeqSet(PendingSeq) => InHand(i) = {}
          /\ Cardinality(InHand(i)) <= 1
    /\ ~Cyclic(list, {})
    /\ ~Cyclic(free, {})

\* C8: for every submitted item the completion effects come in the order
\* result written, items decremented (once), done set, event signalled; an
\* item with done = TRUE holds the value its callback returns for its
\* parameter and has been counted once; and done goes back to FALSE only
\* when a later submit recycles the item.
C8_Order ==
    \A k \in Submitted :
        /\ ginc[k].sigs <= ginc[k].dones
        /\ ginc[k].dones <= ginc[k].decs
        /\ ginc[k].decs <= ginc[k].rets
        /\ ginc[k].rets <= ginc[k].runs
        /\ ginc[k].decs <= 1

C8_DoneHasResult ==
    \A i \in 1 .. nalloc :
        item[i].done =>
            /\ item[i].result = CallbackResult(item[i].callback, item[i].param)
            /\ ginc[item[i].inc].decs = 1

C8_DoneStays ==
    \A i \in 1 .. nalloc :
        (item[i].done /\ ~item'[i].done) => item'[i].inc # item[i].inc

C8_CompletionOrder ==
    /\ [](C8_Order /\ C8_DoneHasResult)
    /\ [][C8_DoneStays]_vars

\* every submission so far belongs to the first submit call of the run
OneSubmission ==
    /\ Len(ginc) >= 1
    /\ \A k \in Submitted : ginc[k].call = ginc[1].call

\* C7: for one submission of n AUTO_RELEASE items to a fresh queue, submit
\* returns NULL, and when the following queue_wait returns true the free
\* list holds exactly the n submitted items, each once, and none of them is
\* pending or in the hand of a thread.
C7_AutoReleaseRecycled ==
    /\ \A t \in clients :
          (pc[t] = "qm_return" /\ loc[t].auto) =>
              queue_multiple_result(loc[t].auto, loc[t].itemlist) = NULL
    /\ \A t \in clients :
          (Returned(t) /\ OneSubmission
                /\ \A k \in Submitted : item[ginc[k].item].auto) =>
              /\ Len(FreeSeq) = Len(ginc)
              /\ SeqSet(FreeSeq) = {ginc[k].item : k \in Submitted}
              /\ PendingSeq = <<>>
              /\ \A i \in 1 .. nalloc : InHand(i) = {}
              /\ \A u \in ThreadIds : loc[u].item = NULL /\ loc[u].witem = NULL

\* C9: on a queue that is not MULTI and has a worker, a queue_wait whose
\* timeout does not expire returns true: it never comes back with items
\* still outstanding.
C9_WaitReturnsTrue ==
    \A t \in clients :
        (pc[t] = "qw_return" /\ threads >= 1 /\ "MULTI" \notin flags
              /\ ~loc[t].timedout) => loc[t].qres

\* C5: the scalable lock excludes: with more threads than slots calling
\* acquire and release, at most one thread is between the return of acquire
\* and its release, and whenever no thread is inside, the counter the
\* critical sections increment by a read and a write equals the number of
\* acquisitions that have returned.
C5_MutualExclusion ==
    /\ LkInside <= 1
    /\ LkInside = 0 => counter = lk_acq

\* C5 witness: a thread is inside while another spins on the very slot it
\* came in by, which takes more than MAX_THREADS threads
C5_Witness ==
    /\ LkInside = 1
    /\ \E r \in BagToSet(lk_cs) : lk_spin[r.slot] >= 1

\* the worker threads of the queue
Workers == {w \in WorkerIds : w <= threads}

\* worker w is blocked on its wake event, and the event is not signalled
Asleep(w) == pc[w] = "wte_wait" /\ ~wakeevent[w]

\* work is pending and counted, and every worker sleeps
AllAsleepWithWork ==
    /\ threads >= 1
    /\ items # 0
    /\ list # NULL
    /\ \A w \in Workers : Asleep(w)

\* a submit call has added its items and has not finished its wake loop
Waking == \E t \in clients : pc[t] \in {"qm_live", "qm_active", "qm_wake"}

\* every item that entered the pending list of a queue with a worker has
\* its callback entered later on
EveryItemRuns ==
    \A k \in 1 .. MaxSubmitted :
        (threads >= 1 /\ k \in SeqSet(genq))
            ~> (k \in Submitted /\ ginc[k].runs >= 1)

\* C10 as amended: on a queue with a worker, under fair scheduling, every
\* item submitted is dequeued and run in the end; and every state in which
\* work is pending and counted while every worker is blocked on an
\* unsignalled wake event is a state in which the submit call is still
\* between its add and the end of its wake loop, about to signal.
C10_NoLostWakeup ==
    /\ [](AllAsleepWithWork => Waking)
    /\ EveryItemRuns

\* C10 witness: work is pending and counted, the worker is blocked on its
\* wake event, and submit has signalled the event
C10_Witness ==
    /\ threads >= 1
    /\ items # 0
    /\ list # NULL
    /\ \A w \in Workers : pc[w] = "wte_wait" /\ wakeevent[w]

\* C10 as stated: no state has work pending and counted while every worker
\* is blocked on an unsignalled wake event
C10_NeverAllAsleepWithWork == ~AllAsleepWithWork

\* C11: an osd_work_item_wait on a non-auto-release item whose timeout does
\* not expire returns true: it comes back only with the item done, and is
\* never let go, by a signal of its event, with the item still running.
C11_ItemWaitReturnsTrue ==
    \A t \in clients :
        (pc[t] = "iw_return" /\ ~loc[t].timedout) => loc[t].ires

\* the calls of osd_work_queue_wait on a queue without threads come back at
\* once: the step that enters the call is the step that returns TRUE
C12_WaitAtOnce ==
    \A t \in ClientIds :
        (threads = 0 /\ pc[t] = "idle" /\ pc'[t] \in
             {"qw_items", "qw_reset", "qw_waiting", "qw_recheck", "qw_block",
              "qw_clear", "qw_final", "qw_return"}) =>
            (pc'[t] = "qw_return" /\ loc'[t].qres)

\* on return from a submit to a queue without threads nothing is pending or
\* counted, and every item submitted has run once, is done and holds the
\* value of its callback
C12_DrainedOnReturn ==
    \A t \in clients :
        (threads = 0 /\ pc[t] = "qm_return") =>
            /\ items = 0
            /\ list = NULL
            /\ \A k \in Submitted :
                  /\ ginc[k].runs = 1 /\ ginc[k].dones = 1
                  /\ item[ginc[k].item].inc = k =>
                        /\ item[ginc[k].item].done
                        /\ item[ginc[k].item].result =
                              CallbackResult(item[ginc[k].item].callback,
                                             item[ginc[k].item].param)

\* C12: on a queue created without workers, submit runs every submitted item
\* on the calling thread before it returns (on return items is 0 and every
\* item is done with its result stored), and osd_work_queue_wait returns
\* TRUE at once, without blocking.
C12_InlineDrain == []C12_DrainedOnReturn /\ [][C12_WaitAtOnce]_vars

\* C12 witness: a second submit to a queue without threads is about to
\* return, and both items have run on the caller
C12_Witness ==
    \E t \in clients :
        /\ threads = 0
        /\ pc[t] = "qm_return"
        /\ Len(ginc) = 2
        /\ ginc[1].call # ginc[2].call
        /\ \A k \in Submitted : ginc[k].dones = 1

\* thread t is inside osd_work_queue_free
InFree(t) ==
    pc[t] \in {"qf_exiting", "qf_signal", "qf_join", "qf_events",
               "qf_freelist", "qf_list"}

\* every worker has left worker_thread_entry
AllWorkersGone == \A w \in Workers : pc[w] = "wte_return"

\* C13: osd_work_queue_free always terminates: once it has been called,
\* whatever the workers were doing and whether or not work is pending,
\* every worker leaves its loop, every join completes and the call returns;
\* and it does not get past the joins while a worker is still running.
C13_FreeTerminates ==
    /\ \A t \in ClientIds : InFree(t) ~> (pc[t] = "freed" /\ AllWorkersGone)
    /\ [](\A t \in ClientIds :
             pc[t] \in {"qf_events", "qf_freelist", "qf_list", "freed"}
                 => AllWorkersGone)

\* C13 witness: the joins are done on a queue with a worker while an item
\* is still pending
C13_Witness ==
    \E t \in clients :
        /\ pc[t] = "qf_events"
        /\ threads >= 1
        /\ list # NULL
        /\ AllWorkersGone

\* the decimal numeral of n >= 0 as a string
DigitChar(d) ==
    CASE d = 0 -> "0" [] d = 1 -> "1" [] d = 2 -> "2" [] d = 3 -> "3"
      [] d = 4 -> "4" [] d = 5 -> "5" [] d = 6 -> "6" [] d = 7 -> "7"
      [] d = 8 -> "8" [] d = 9 -> "9"

RECURSIVE Decimal(_)
Decimal(n) ==
    IF n < 10 THEN <<DigitChar(n)>>
    ELSE Decimal(n \div 10) \o <<DigitChar(n % 10)>>

\* the worker count the specification gives for P processors and flags F
ClaimedThreads(P, F) ==
    LET n == IF P = 1 THEN (IF "IO" \in F THEN 1 ELSE 0)
             ELSE (IF "MULTI" \in F THEN P - 1 ELSE 1)
    IN  IF n > 16 THEN 16 ELSE n

\* the processor counts the specification allows for an environment: the override
\* when it is the numeral of a positive integer; the platform's count when
\* the variable is not set, is empty, is the numeral of zero or of a negative
\* integer, or starts with a character no number starts with; for any other
\* string, either of the two readings
ClaimedProcs(env, platform) ==
    LET nums == {n \in 0 .. 999 : env.text = Decimal(n)}
        negs == {n \in 0 .. 99 : env.text = <<"-">> \o Decimal(n)}
    IN  IF ~env.set \/ env.text = <<>> THEN {platform}
        ELSE IF nums # {} THEN {IF n > 0 THEN n ELSE platform : n \in nums}
        ELSE IF negs # {} \/ Head(env.text) = "x" THEN {platform}
        ELSE {platform} \cup 1 .. 999

\* C14: the number of workers osd_work_queue_alloc chooses is, for the
\* effective processor count P >= 1 and the flags F, (IO ? 1 : 0) when
\* P = 1 and (MULTI ? P - 1 : 1) otherwise, clamped to 16, where P is the
\* OSDPROCESSORS override when that is present and the numeral of a
\* positive integer, and the platform's count otherwise.
C14_ThreadCount ==
    \A t \in clients :
        (pc[t] = "idle" /\ DOMAIN inputs = {"parambase", "auto", "OSDPROCESSORS",
                                            "osd_num_processors", "flags"}) =>
            /\ flags = inputs.flags
            /\ \E P \in ClaimedProcs(inputs.OSDPROCESSORS,
                                     inputs.osd_num_processors) :
                  threads = ClaimedThreads(P, inputs.flags)

\* C14 witness: OSDPROCESSORS=19 on a platform of 2 processors gives a MULTI
\* queue 16 threads, the clamp of 18
C14_Witness ==
    \E t \in clients :
        /\ pc[t] = "idle"
        /\ DOMAIN inputs = {"parambase", "auto", "OSDPROCESSORS",
                            "osd_num_processors", "flags"}
        /\ inputs.OSDPROCESSORS = [set |-> TRUE, text |-> <<"1", "9">>]
        /\ inputs.osd_num_processors = 2
        /\ inputs.flags = {"MULTI"}
        /\ threads = 16

\* the items a submit call that has failed had taken before the failure
Taken(t) == SeqSet(ChainFrom(loc[t].itemlist, {}))

\* C15: when the allocation of an item fails part-way through a submit, the
\* call returns NULL and leaves no partial state: none of the items it had
\* taken is on the pending list, and each of them is back on the free list
\* or freed.
C15_NoPartialState ==
    \A t \in clients :
        pc[t] = "qm_failed" =>
            \A i \in Taken(t) :
                /\ i \notin SeqSet(PendingSeq)
                /\ i \in SeqSet(FreeSeq) \/ item[i].freed

\* the slots that hold the baton
Batons == {s \in Slots : lock.haslock[s]}

\* at most one slot holds the baton; one does when no thread holds the lock
\* and none does while a thread holds it; the slot a holder will release
\* into holds FALSE
C16_OneBaton ==
    /\ Cardinality(Batons) <= 1
    /\ LkInside = 0 => Cardinality(Batons) = 1
    /\ LkInside >= 1 => Batons = {}
    /\ \A r \in BagToSet(lk_cs) : ~lock.haslock[(r.slot + 1) % 16]

\* a step in which a holder leaves writes TRUE into the slot after its
\* ticket's, which held FALSE, and into no other
C16_ReleaseToNext ==
    LkInside' < LkInside =>
        \E r \in BagToSet(lk_cs) :
            /\ ~lock.haslock[(r.slot + 1) % 16]
            /\ lock'.haslock = [lock.haslock EXCEPT ![(r.slot + 1) % 16] = TRUE]

\* C16: the baton invariant of the scalable lock: from slot 0 TRUE and all
\* others FALSE, in every state at most one slot has haslock TRUE, exactly
\* one when no thread holds the lock and none while a thread holds it; and
\* a release by ticket s writes TRUE into slot (s + 1) mod 16, which holds
\* FALSE at the moment of the write.
C16_BatonInvariant == []C16_OneBaton /\ [][C16_ReleaseToNext]_vars

\* C16 witness: the baton has gone once round the ring and rests in slot 1,
\* no thread holding the lock
C16_Witness ==
    /\ LkInside = 0
    /\ lk_acq = MAX_THREADS + 1
    /\ Batons = {1}

\* ------------------------------------------------------------------- C17
\* the waiters on slot s, lk_first included
WaitersOn(s) ==
    lk_spin[s] + (IF lk_first.at = "spin" /\ lk_first.slot = s THEN 1 ELSE 0)

\* while the lock is free and somebody waits, a waiter spins on the slot
\* that holds the baton
C17_BatonHasWaiter ==
    (LfWaiting /\ ~LfHeld) =>
        \E s \in Slots : lock.haslock[s] /\ WaitersOn(s) >= 1

\* while the lock is held no slot holds the baton; while it is free at most
\* one does
C17_BatonCount ==
    LET n == Cardinality({s \in Slots : lock.haslock[s]})
    IN  IF LfHeld THEN n = 0 ELSE n = 1

\* lk_first waits with no other waiter on its slot
FirstAlone ==
    lk_first.at = "spin" /\ lk_spin[lk_first.slot] = 0

\* C17, as the code has it: the lock never deadlocks: while the lock is free
\* and threads wait, some waiter spins on the slot that holds the baton, and
\* some call to acquire returns; a waiter does not wait for ever alone on
\* its slot, so a call that never returns shares its slot with another
\* waiter again and again
C17_NoDeadlock ==
    /\ [](C17_BatonHasWaiter /\ C17_BatonCount)
    /\ (LfWaiting ~> LfHeld)
    /\ (FirstAlone ~> (lk_first.at = "in" \/ lk_spin[lk_first.slot] > 0))

\* C17, as the specification has it: with more threads than slots too, every
\* call to acquire returns
C17_EveryAcquireReturns ==
    (lk_first.at = "spin") ~> (lk_first.at = "in")

\* more than MAX_THREADS threads contend: the lock is free, lk_first and
\* another waiter spin on the slot that holds the baton
C17_Witness ==
    /\ ~LfHeld
    /\ lk_first.at = "spin"
    /\ lock.haslock[lk_first.slot]
    /\ lk_spin[lk_first.slot] >= 1
    /\ LkSpinning + 1 = LockThreads

\* ------------------------------------------------------------------- C18
\* the place queue->tailptr should point: the next field of the last pending
\* item, or queue->list when nothing is pending
LastTail ==
    IF PendingSeq = <<>> THEN TailList
    ELSE TailNext(PendingSeq[Len(PendingSeq)])

\* C18: between critical sections, after submits of one or more items and
\* dequeues, the tail pointer designates the next field of the last node of
\* the pending list, or the list head when the list is empty, and the
\* pending list is finite and acyclic.
C18_TailPointer ==
    /\ tailptr = LastTail
    /\ ~Cyclic(list, {})

\* ------------------------------------------------------------------- C19
\* C19: on a MULTI queue osd_work_queue_wait never blocks on doneevent: no
\* thread is ever at the reset of doneevent, at the write of waiting, at the
\* wait on doneevent or at the signal of doneevent; waiting is FALSE and
\* doneevent signalled in every state; and when queue_wait returns, it
\* returns TRUE and items is 0.
C19_MultiNeverBlocks ==
    "MULTI" \in flags =>
        /\ waiting = FALSE
        /\ doneevent = TRUE
        /\ \A t \in ThreadIds :
              /\ pc[t] \notin {"qw_reset", "qw_waiting", "qw_recheck",
                               "qw_block", "qw_clear", "qw_final",
                               "wtp_setdone"}
              /\ pc[t] = "qw_return" => (loc[t].qres /\ items = 0)
              /\ ~loc[t].timedout

\* a queue_wait on a MULTI queue with workers has drained the queue on the
\* calling thread and is at the test of waiting, about to return
C19_Witness ==
    /\ "MULTI" \in flags
    /\ threads >= 1
    /\ pc[3] = "wtp_waiting"
    /\ loc[3].ret = "qw_return"
    /\ items = 0
    /\ \E k \in Submitted : ginc[k].runs >= 1

\* ------------------------------------------------------------------- C20
\* the client has passed the joins of osd_work_queue_free
PastJoins(t) == pc[t] \in {"qf_events", "qf_freelist", "qf_list", "freed"}

\* the callback of pending item i has not been entered
NeverRun(i) ==
    item[i].inc \in Submitted /\ ginc[item[i].inc].runs = 0

\* no item leaves the pending list and no callback is entered in this step
NoneTaken ==
    /\ gdeq' = gdeq
    /\ \A k \in Submitted : ginc'[k].runs = ginc[k].runs

\* queue_free walks the pending list: each item on it is freed, and its
\* callback has never run
DroppedUnrun ==
    \A t \in ClientIds :
        (pc[t] = "qf_list" /\ pc'[t] = "freed") =>
            \A i \in SeqSet(PendingSeq) : NeverRun(i) /\ item'[i].freed

\* C20, as the code has it: work that is still on the pending list when the
\* workers have returned is dropped: once queue_free is past its joins no
\* item is dequeued and no callback is entered, the pending items have never
\* run, and queue_free frees them as they are.
C20_DroppedAfterJoins ==
    /\ [](\A t \in ClientIds :
             PastJoins(t) => \A i \in SeqSet(PendingSeq) : NeverRun(i))
    /\ [][(\E t \in ClientIds : PastJoins(t)) => NoneTaken]_vars
    /\ [][DroppedUnrun]_vars

\* C20, as the specification has it: after exiting has been set no worker
\* dequeues a further item from the pending list.
C20_NoDequeueAfterExiting ==
    [][exiting => gdeq' = gdeq]_vars

\* queue_free has returned on a queue with a worker, and an item that was
\* submitted has been freed without its callback having run
C20_Witness ==
    \E t \in clients :
        /\ pc[t] = "freed"
        /\ threads >= 1
        /\ \E i \in Items : item[i].freed /\ NeverRun(i)

\* ------------------------------------------------------------------- C21
\* C21: a submit with numitems == 0 is a no-op on the queue: the tail
\* pointer still designates the list head or the next field of the last
\* pending item, the call wakes a worker only while it has an item left to
\* wake it for, and the items a later submit enqueues are on the pending
\* list until they are dequeued.
C21_ZeroSubmitNoOp ==
    /\ tailptr = LastTail
    /\ \A t \in ThreadIds : pc[t] = "qm_wake" => loc[t].numitems >= 1
    /\ Len(PendingSeq) = Len(genq) - Len(gdeq)

\* ------------------------------------------------------------------- C22
\* thread t sets the event of the item it has in hand in this step
SignalsEvent(t) ==
    /\ pc[t] = "wtp_event"
    /\ pc'[t] # "wtp_event"
    /\ item[loc[t].item].event # "none"

\* C22: a completion signal belongs to one incarnation of an item: a thread
\* that sets the event of an item does so while the item holds the
\* submission it has completed (done is TRUE), also when the item has been
\* released, recycled by a later submit and waited on again; so a call of
\* osd_work_item_wait whose timeout has not expired returns TRUE.
C22_SignalOfOwnIncarnation ==
    /\ [][\A t \in ThreadIds : SignalsEvent(t) => item[loc[t].item].done]_vars
    /\ [](\A t \in clients :
             (pc[t] = "iw_return" /\ loc[t].ires = FALSE)
                 => loc[t].timedout)

=============================================================================
